---- MODULE Spec2Model ----
(***************************************************************************)
(* Model of the project dashboard of src/app.py: the projects and          *)
(* project_files tables of project_mapping.db, the files on disk, and the  *)
(* handlers that change them.  One script run is one action, except that   *)
(* upload_file and delete_file, which touch the disk and the database in   *)
(* two separate steps, are two actions each.                               *)
(***************************************************************************)
EXTENDS Integers, Sequences, FiniteSets, TLC

\* ---- bounds ----
\* cap on the AUTOINCREMENT counter of projects (number of inserts modelled)
MaxProjects == 2
\* cap on the AUTOINCREMENT counter of project_files
MaxFiles == 2

\* ---- input domains ----
D0109 == [y |-> 2024, m |-> 1, d |-> 9]
D0110 == [y |-> 2024, m |-> 1, d |-> 10]

\* the form values a user submits on the add and edit tabs
PortalRevamp ==
  [project_name |-> "Portal Revamp", category |-> "Project", pic |-> "Alice",
   status |-> "In Progress", date_start |-> D0109, date_end |-> D0110]
Intranet ==
  [project_name |-> "Intranet", category |-> "Service", pic |-> "Bob",
   status |-> "Completed", date_start |-> D0110, date_end |-> D0109]
NoName == [PortalRevamp EXCEPT !.project_name = ""]
NoPic == [PortalRevamp EXCEPT !.pic = ""]

ValidInputs == {PortalRevamp, Intranet}
FormInputs == {PortalRevamp, Intranet, NoName, NoPic}
\* the forms submitted in the runs that vary the uploads
FewForms == {PortalRevamp, NoName}

\* A file name is a relative path of one component; paths are sequences of
\* components, so "files/project_1/spec.pdf" is <<"files", 1, "spec.pdf">>.
\* The value of the file_uploader widget is None, or a file with a name and bytes.
NoUpload == [name |-> <<>>, bytes |-> 0]
LogoPng1 == [name |-> <<"cistech.png">>, bytes |-> 1]
LogoPng2 == [name |-> <<"cistech.png">>, bytes |-> 2]
\* two versions of a file that has the name of a file of the working directory
UploadedFiles == {LogoPng1, LogoPng2}
\* the uploads made in the runs that vary the forms
FewFiles == {LogoPng1}

\* content of the logo the script reads from its working directory
LogoBytes == 9

\* ---- messages shown by st.success / st.error ----
NoMsg == "none"
MsgAdded == "Project added successfully!"
MsgErrAdd == "Error adding project"
MsgRequired == "Project Name and PIC are required!"
MsgUpdated == "Project updated successfully!"
MsgErrUpdate == "Error updating project"
MsgRequiredEdit == "Name of the Project & PIC are required!"
MsgDeleted == "Project deleted successfully!"
MsgErrDelete == "Error deleting project"
MsgUploaded == "File uploaded successfully!"
MsgFileDeleted == "File deleted successfully!"
MsgNotInDb == "File does not exist in the database."
MsgNotOnDisk == "File does not exist on disk."
MsgErrDeleteFile == "Error deleting the file"
\* an exception that no handler of the script catches
Uncaught == "uncaught exception"

VARIABLES
  projects,       \* rows of table projects
  seqProjects,    \* sqlite_sequence entry of projects (largest id ever used)
  project_files,  \* rows of table project_files
  seqFiles,       \* sqlite_sequence entry of project_files
  disk,           \* path -> bytes, for the files that exist
  pc,             \* "idle", or the position inside upload_file / delete_file
  pending,        \* arguments of the call in progress
  msg             \* message the last script run showed

vars == <<projects, seqProjects, project_files, seqFiles, disk, pc, pending, msg>>

\* ---- helpers ----
Max(S) == CHOOSE x \in S : \A y \in S : y <= x

Ids(rows) == {r.id : r \in rows}

NextRowIdNoSequence(seq, rows) == Max({0} \cup Ids(rows)) + 1

\* rowid chosen by INSERT: one more than the largest rowid the table ever had
NextRowId(seq, rows) == Max({seq} \cup Ids(rows)) + 1

\* characters of a string as character codes
Dash == 45
Digit(n) == 48 + n
Pad2(n) == <<Digit((n \div 10) % 10), Digit(n % 10)>>
Pad4(n) == <<Digit((n \div 1000) % 10), Digit((n \div 100) % 10)>> \o Pad2(n)

Digits(n) == IF n < 10 THEN <<Digit(n)>> ELSE Pad2(n)
strftimeUnpadded(date) ==
  Pad4(date.y) \o <<Dash>> \o Digits(date.m) \o <<Dash>> \o Digits(date.d)

\* date.strftime('%Y-%m-%d')
strftime(date) == Pad4(date.y) \o <<Dash>> \o Pad2(date.m) \o <<Dash>> \o Pad2(date.d)

\* order of calendar dates
DateLeq(a, b) ==
  \/ a.y < b.y
  \/ a.y = b.y /\ a.m < b.m
  \/ a.y = b.y /\ a.m = b.m /\ a.d <= b.d

\* order of strings (TEXT columns compare character by character)
RECURSIVE StrLeq(_, _)
StrLeq(s, t) ==
  IF s = <<>> THEN TRUE
  ELSE IF t = <<>> THEN FALSE
  ELSE IF Head(s) # Head(t) THEN Head(s) < Head(t)
  ELSE StrLeq(Tail(s), Tail(t))

\* the row INSERT INTO projects stores
ProjectRow(id, inp) ==
  [id |-> id, project_name |-> inp.project_name, category |-> inp.category,
   pic |-> inp.pic, status |-> inp.status,
   date_start |-> strftime(inp.date_start), date_end |-> strftime(inp.date_end)]

UpdateAllRows(rows, id, inp) == {ProjectRow(r.id, inp) : r \in rows}

\* UPDATE projects SET ... WHERE id=?
UpdateRows(rows, id, inp) ==
  {IF r.id = id THEN ProjectRow(r.id, inp) ELSE r : r \in rows}

\* DELETE FROM projects WHERE id=?
DeleteRows(rows, id) == {r \in rows : r.id # id}

\* SELECT * FROM projects
get_all_projects == projects

\* f"files/project_{project_id}/"
Directory(project_id) == <<"files", project_id>>
\* os.path.join(directory, name)
PathJoin(directory, name) == directory \o name

\* row[i] of a SELECT * FROM project_files row (columns in schema order)
Column(row, i) ==
  CASE i = 0 -> row.id
    [] i = 1 -> row.project_id
    [] i = 2 -> row.file_name
    [] i = 3 -> row.file_path

\* os.path.exists(path), relative to the working directory
Exists(path) == path \in DOMAIN disk

WriteFileExclusive(d, path, bytes) ==
  [p \in DOMAIN d \cup {path} |-> IF p = path /\ p \notin DOMAIN d THEN bytes ELSE d[p]]

\* open(path, "wb").write(bytes)
WriteFile(d, path, bytes) ==
  [p \in DOMAIN d \cup {path} |-> IF p = path THEN bytes ELSE d[p]]

\* os.remove(path)
RemoveFile(d, path) == [p \in DOMAIN d \ {path} |-> d[p]]

FileRowNameAsPath(id, project_id, name, filepath) ==
  [id |-> id, project_id |-> project_id, file_name |-> name, file_path |-> name]

\* the row INSERT INTO project_files stores
FileRow(id, project_id, name, filepath) ==
  [id |-> id, project_id |-> project_id, file_name |-> name, file_path |-> filepath]

\* SELECT pf.id, pf.file_name, pf.file_path FROM project_files pf WHERE pf.project_id = P
ListFilesOf(rows, P) ==
  {[id |-> r.id, file_name |-> r.file_name, file_path |-> r.file_path] :
     r \in {q \in rows : q.project_id = P}}
ListFiles(P) == ListFilesOf(project_files, P)

\* open(row['file_path'], 'rb').read()
ReadFile(d, row) == d[row.file_path]

NoCall == [op |-> "none"]

\* ---- initial state: init_db() on an empty directory holding the app ----
Init ==
  /\ projects = {}
  /\ seqProjects = 0
  /\ project_files = {}
  /\ seqFiles = 0
  /\ disk = [p \in {<<"cistech.png">>} |-> LogoBytes]
  /\ pc = "idle"
  /\ pending = NoCall
  /\ msg = NoMsg

\* ---- ProjectStore ----
add_project(inp) ==
  \/ /\ msg' = MsgAdded
     /\ projects' = projects \cup {ProjectRow(NextRowId(seqProjects, projects), inp)}
     /\ seqProjects' = NextRowId(seqProjects, projects)
  \/ /\ msg' = MsgErrAdd
     /\ UNCHANGED <<projects, seqProjects>>

\* tab2: the add form is submitted
tab2_submit(inp) ==
  /\ pc = "idle"
  /\ IF inp.project_name # "" /\ inp.pic # ""
       THEN /\ seqProjects < MaxProjects
            /\ add_project(inp)
       ELSE /\ msg' = MsgRequired
            /\ UNCHANGED <<projects, seqProjects>>
  /\ UNCHANGED <<project_files, seqFiles, disk, pc, pending>>

update_project(id, inp) ==
  \/ /\ msg' = MsgUpdated
     /\ projects' = UpdateRows(projects, id, inp)
  \/ /\ msg' = MsgErrUpdate
     /\ UNCHANGED projects

\* tab3: the edit form is submitted
tab3_submit(id, inp) ==
  /\ pc = "idle"
  /\ IF inp.project_name # "" /\ inp.pic # ""
       THEN update_project(id, inp)
       ELSE /\ msg' = MsgRequiredEdit
            /\ UNCHANGED projects
  /\ UNCHANGED <<seqProjects, project_files, seqFiles, disk, pc, pending>>

delete_project_cascade(id) ==
  /\ pc = "idle"
  /\ projects' = DeleteRows(projects, id)
  /\ project_files' = {f \in project_files : f.project_id # id}
  /\ msg' = MsgDeleted
  /\ UNCHANGED <<seqProjects, seqFiles, disk, pc, pending>>

delete_project(id) ==
  /\ pc = "idle"
  /\ \/ /\ msg' = MsgDeleted
        /\ projects' = DeleteRows(projects, id)
     \/ /\ msg' = MsgErrDelete
        /\ UNCHANGED projects
  /\ UNCHANGED <<seqProjects, project_files, seqFiles, disk, pc, pending>>

\* ---- FileStore ----
\* upload_file, first step: makedirs and the write of the blob
upload_file_write(project_id, uploaded_file) ==
  /\ pc = "idle"
  /\ project_id \in Ids(get_all_projects)
  /\ IF uploaded_file = NoUpload
       THEN /\ msg' = NoMsg
            /\ UNCHANGED <<disk, pc, pending>>
       ELSE /\ seqFiles < MaxFiles
            /\ \/ /\ disk' = WriteFile(disk, PathJoin(Directory(project_id), uploaded_file.name),
                                       uploaded_file.bytes)
                  /\ pc' = "upload_written"
                  /\ pending' = [op |-> "upload_file", project_id |-> project_id,
                                 name |-> uploaded_file.name, bytes |-> uploaded_file.bytes,
                                 filepath |-> PathJoin(Directory(project_id), uploaded_file.name)]
                  /\ msg' = NoMsg
               \/ /\ msg' = Uncaught
                  /\ UNCHANGED <<disk, pc, pending>>
  /\ UNCHANGED <<projects, seqProjects, project_files, seqFiles>>

\* upload_file, second step: the INSERT of the metadata row
upload_file_insert ==
  /\ pc = "upload_written"
  /\ \/ /\ project_files' = project_files \cup
              {FileRow(NextRowId(seqFiles, project_files), pending.project_id,
                       pending.name, pending.filepath)}
        /\ seqFiles' = NextRowId(seqFiles, project_files)
        /\ msg' = MsgUploaded
     \/ /\ msg' = Uncaught
        /\ UNCHANGED <<project_files, seqFiles>>
  /\ pc' = "idle"
  /\ pending' = NoCall
  /\ UNCHANGED <<projects, seqProjects, disk>>

\* delete_file, first step: the lookup, the existence check and os.remove
delete_file_remove(file_id) ==
  /\ pc = "idle"
  /\ IF ~ \E r \in project_files : r.id = file_id
       THEN /\ msg' = MsgNotInDb
            /\ UNCHANGED <<disk, pc, pending>>
       ELSE LET row == CHOOSE r \in project_files : r.id = file_id IN
            IF Exists(Column(row, 2))
              THEN \/ /\ disk' = RemoveFile(disk, Column(row, 2))
                      /\ pc' = "delete_removed"
                      /\ pending' = [op |-> "delete_file", file_id |-> file_id]
                      /\ msg' = NoMsg
                   \/ /\ msg' = MsgErrDeleteFile
                      /\ UNCHANGED <<disk, pc, pending>>
              ELSE /\ msg' = MsgNotOnDisk
                   /\ UNCHANGED <<disk, pc, pending>>
  /\ UNCHANGED <<projects, seqProjects, project_files, seqFiles>>

\* delete_file, second step: the DELETE of the metadata row
delete_file_row ==
  /\ pc = "delete_removed"
  /\ \/ /\ project_files' = {r \in project_files : r.id # pending.file_id}
        /\ msg' = MsgFileDeleted
     \/ /\ msg' = MsgErrDeleteFile
        /\ UNCHANGED project_files
  /\ pc' = "idle"
  /\ pending' = NoCall
  /\ UNCHANGED <<projects, seqProjects, seqFiles, disk>>

\* tab5: the files of the selected project are listed and read for download
tab5_render(project_id) ==
  /\ pc = "idle"
  /\ project_id \in Ids(get_all_projects)
  /\ msg' = IF \A row \in ListFiles(project_id) : row.file_path \in DOMAIN disk
              THEN NoMsg ELSE Uncaught
  /\ UNCHANGED <<projects, seqProjects, project_files, seqFiles, disk, pc, pending>>

\* a stored blob disappears from the disk outside the application
blob_lost(path) ==
  /\ pc = "idle"
  /\ path \in DOMAIN disk
  /\ Len(path) = 3
  /\ disk' = RemoveFile(disk, path)
  /\ UNCHANGED <<projects, seqProjects, project_files, seqFiles, pc, pending, msg>>

\* the script is run with one of the inputs below; uploads vary
Next ==
  \/ \E inp \in FewForms : tab2_submit(inp)
  \/ \E id \in 1..MaxProjects, inp \in FewForms : tab3_submit(id, inp)
  \/ \E id \in 1..MaxProjects : delete_project(id)
  \/ \E id \in 1..MaxProjects, f \in UploadedFiles \cup {NoUpload} : upload_file_write(id, f)
  \/ upload_file_insert
  \/ \E id \in 1..(MaxFiles + 1) : delete_file_remove(id)
  \/ delete_file_row
  \/ \E id \in 1..MaxProjects : tab5_render(id)

Spec == Init /\ [][Next]_vars

\* the same script, the forms vary
NextForms ==
  \/ \E inp \in FormInputs : tab2_submit(inp)
  \/ \E id \in 1..MaxProjects, inp \in FormInputs : tab3_submit(id, inp)
  \/ \E id \in 1..MaxProjects : delete_project(id)
  \/ \E id \in 1..MaxProjects, f \in FewFiles \cup {NoUpload} : upload_file_write(id, f)
  \/ upload_file_insert
  \/ \E id \in 1..(MaxFiles + 1) : delete_file_remove(id)
  \/ delete_file_row
  \/ \E id \in 1..MaxProjects : tab5_render(id)

SpecForms == Init /\ [][NextForms]_vars

\* the same script on a disk that can lose stored blobs
NextEnv ==
  \/ Next
  \/ \E path \in DOMAIN disk : blob_lost(path)

SpecEnv == Init /\ [][NextEnv]_vars

\* ---- properties ----
BlobPath(project_id, name) == PathJoin(Directory(project_id), name)
Iso0109 == <<50, 48, 50, 52, 45, 48, 49, 45, 48, 57>>
Iso0110 == <<50, 48, 50, 52, 45, 48, 49, 45, 49, 48>>

\* C1: delete_file on a row whose blob exists at file_path removes the blob
\* (first step) and, when the DELETE succeeds, the row (second step).
C1_DeleteRemovesBlobAndRow ==
  [][ /\ \A r \in project_files :
           (pc = "idle" /\ Exists(r.file_path) /\ delete_file_remove(r.id)
              /\ msg' # MsgErrDeleteFile)
           => (pc' = "delete_removed" /\ r.file_path \notin DOMAIN disk')
      /\ (delete_file_row /\ msg' = MsgFileDeleted)
           => (pending.file_id \notin Ids(project_files')) ]_vars

\* C2: when upload_file completes with its success message, the listing of the
\* project holds a row with the uploaded name, and reading the file of every
\* listed row of that name gives exactly the uploaded bytes.
C2_UploadListDownload ==
  [][ (pc = "upload_written" /\ msg' = MsgUploaded)
      => /\ \E row \in ListFilesOf(project_files', pending.project_id) :
              /\ row.file_name = pending.name
              /\ row.id \notin Ids(project_files)
              /\ row.file_path \in DOMAIN disk'
              /\ ReadFile(disk', row) = pending.bytes
         /\ \A row \in ListFilesOf(project_files', pending.project_id) :
              row.file_name = pending.name
              => (row.file_path \in DOMAIN disk' /\ ReadFile(disk', row) = pending.bytes) ]_vars

\* an upload of cistech.png over an earlier cistech.png of the same project completed
C2_Witness ==
  /\ msg = MsgUploaded
  /\ Cardinality({r \in project_files : r.file_path = BlobPath(1, <<"cistech.png">>)}) = 2
  /\ disk[BlobPath(1, <<"cistech.png">>)] = 2

\* C3: no two rows of project_files have the same file_path.
C3_PathUniqueAcrossRows ==
  \A r1, r2 \in project_files : r1.file_path = r2.file_path => r1 = r2

\* C4: no failure of upload_file or of the download loop leaves the script
\* with an exception that nothing caught.
C4_NoUncaughtFailure == msg # Uncaught

\* C5: a successful delete_project(id) removes the row with that id, leaves the
\* other project rows, all project_files rows and all files unchanged, and an id
\* that was assigned and is gone never comes back.
C5_DeleteProjectFrame ==
  [][ /\ \A id \in 1..(MaxProjects + 1) :
           (delete_project(id) /\ msg' = MsgDeleted)
           => /\ id \notin Ids(get_all_projects')
              /\ {r \in projects' : r.id # id} = {r \in projects : r.id # id}
              /\ project_files' = project_files
              /\ disk' = disk
      /\ \A id \in 1..seqProjects :
           id \notin Ids(projects) => id \notin Ids(projects') ]_vars

\* project 1 was deleted; its file row and its blob are still there
C5_Witness ==
  /\ msg = MsgDeleted
  /\ seqProjects >= 1
  /\ 1 \notin Ids(projects)
  /\ \E f \in project_files :
       f.project_id = 1 /\ f.file_path \in DOMAIN disk /\ Len(f.file_path) = 3

\* C6: update_project on an existing id overwrites the six fields of that row
\* and of no other; on an id without a row it changes nothing; in both cases
\* the only outcomes are the success message and the database error.
C6_UpdateOverwritesOneRow ==
  [][ \A id \in 1..(MaxProjects + 1), inp \in ValidInputs :
        tab3_submit(id, inp)
        => /\ msg' \in {MsgUpdated, MsgErrUpdate}
           /\ msg' = MsgUpdated
                => /\ Ids(projects') = Ids(projects)
                   /\ \A r \in projects' :
                        IF r.id = id
                          THEN /\ r.project_name = inp.project_name
                               /\ r.category = inp.category
                               /\ r.pic = inp.pic
                               /\ r.status = inp.status
                               /\ r.date_start = strftime(inp.date_start)
                               /\ r.date_end = strftime(inp.date_end)
                          ELSE r \in projects
                   /\ id \notin Ids(projects) => projects' = projects ]_vars

\* row 1 was overwritten while row 2 kept other values
C6_Witness ==
  /\ msg = MsgUpdated
  /\ \E r1, r2 \in projects :
       /\ r1.id = 1 /\ r1.project_name = "Intranet" /\ r1.status = "Completed"
       /\ r2.id = 2 /\ r2.project_name = "Portal Revamp" /\ r2.date_start = Iso0109

\* C7: delete_file on an id without a row reports that the row is missing, on a
\* row whose blob is missing at file_path reports that the file is missing, and
\* in both cases leaves every row and every file as they were.
C7_DeleteFailuresChangeNothing ==
  [][ \A id \in 1..(MaxFiles + 1) :
        (pc = "idle" /\ delete_file_remove(id))
        => /\ (~ \E r \in project_files : r.id = id)
                => (msg' = MsgNotInDb /\ UNCHANGED <<project_files, disk, pc>>)
           /\ (\E r \in project_files : r.id = id /\ ~ Exists(r.file_path))
                => (msg' = MsgNotOnDisk /\ UNCHANGED <<project_files, disk, pc>>) ]_vars

\* C8 as stated: the added record carries the given fields and has
\* date_end >= date_start.
C8_AddedRecordOrdered ==
  [][ \A inp \in ValidInputs :
        (tab2_submit(inp) /\ msg' = MsgAdded)
        => \E r \in get_all_projects' :
             /\ r.id \notin Ids(projects)
             /\ r.project_name = inp.project_name
             /\ r.category = inp.category
             /\ r.pic = inp.pic
             /\ r.status = inp.status
             /\ r.date_start = strftime(inp.date_start)
             /\ r.date_end = strftime(inp.date_end)
             /\ StrLeq(r.date_start, r.date_end) ]_vars

\* C8 amended: the added record carries the given fields, the dates as
\* YYYY-MM-DD text, and has date_end >= date_start whenever the given end date
\* is not before the given start date.
C8_AddedRecordAsGiven ==
  [][ \A inp \in ValidInputs :
        (tab2_submit(inp) /\ msg' = MsgAdded)
        => \E r \in get_all_projects' :
             /\ r.id \notin Ids(projects)
             /\ r.project_name = inp.project_name
             /\ r.category = inp.category
             /\ r.pic = inp.pic
             /\ r.status = inp.status
             /\ r.date_start = strftime(inp.date_start)
             /\ r.date_end = strftime(inp.date_end)
             /\ Len(r.date_start) = 10 /\ Len(r.date_end) = 10
             /\ DateLeq(inp.date_start, inp.date_end)
                  => StrLeq(r.date_start, r.date_end) ]_vars

\* the project of the spec's scenario was just added, with its dates as text
C8_Witness ==
  /\ msg = MsgAdded
  /\ \E r \in projects :
       /\ r.id = seqProjects
       /\ r.project_name = "Portal Revamp" /\ r.category = "Project"
       /\ r.pic = "Alice" /\ r.status = "In Progress"
       /\ r.date_start = Iso0109 /\ r.date_end = Iso0110

\* C9: outside the two steps of delete_file, the file_path of every row of
\* project_files names a file that exists.
C9_RowImpliesBlob ==
  pc # "delete_removed" => \A r \in project_files : r.file_path \in DOMAIN disk

\* an insert failed after the write: a blob without a row, next to a row
C9_Witness ==
  /\ msg = Uncaught
  /\ pc = "idle"
  /\ project_files # {}
  /\ \E path \in DOMAIN disk :
       Len(path) = 3 /\ \A r \in project_files : r.file_path # path

\* C10: every id in use was assigned; a new project gets id 1 on the empty
\* store and otherwise an id above every id assigned before, and no row of
\* project_files refers to it.
C10_IdsNeverReused ==
  /\ [](\A r \in projects : r.id <= seqProjects)
  /\ [][ /\ seqProjects' >= seqProjects
         /\ \A r \in projects' :
              r.id \notin Ids(projects)
              => /\ r.id > seqProjects
                 /\ seqProjects = 0 => r.id = 1
                 /\ seqProjects' = r.id
                 /\ \A f \in project_files' : f.project_id # r.id ]_vars

\* project 2 was added after project 1 was deleted with its file row left behind
C10_Witness ==
  /\ msg = MsgAdded
  /\ Ids(projects) = {2}
  /\ \E f \in project_files : f.project_id = 1

====
